---- MODULE Spec2Model ----
(***************************************************************************)
(* LMX2594 power-up sequencer (src/src/main.rs) and register model         *)
(* (src/src/lmx2594.rs).                                                   *)
(*                                                                         *)
(* The program is one sequential thread: main() drives the select line,   *)
(* the chip-enable line, then calls write_reg for the reset words, for    *)
(* every entry of REG_MAP from the highest index down to 0, and for the   *)
(* calibration words, with a blocking 10 ms delay after each step, and    *)
(* ends in an empty loop.  pc is main's position (the line of main.rs     *)
(* about to execute), wr is the position inside write_reg (the line of    *)
(* lmx2594.rs about to execute, or "idle" outside a call).  log records   *)
(* every effect on the outside world (pin edges, octets on the serial     *)
(* bus, elapsed delays) in the order it happens.                           *)
(***************************************************************************)
EXTENDS Integers, Sequences, FiniteSets

VARIABLES
    pc,        \* main.rs line about to execute
    wr,        \* lmx2594.rs line of write_reg about to execute, or "idle"
    self,      \* &self of the write_reg call in progress
    it,        \* REG_MAP.iter().rev(): number of elements not yet yielded
    r,         \* loop variable of the for at main.rs:174
    spi_cs,    \* level of the ~CS pin (gpio5)
    ce_pin,    \* level of the chip-enable pin (gpio6)
    led_pin,   \* level of the LED pin
    buf,       \* the [u8; 3] transmit buffer of main.rs:166
    delaying,  \* TRUE while delay.delay_ms is blocking
    now,       \* milliseconds spent in delay_ms so far
    log,       \* what the outside world has seen, in order
    table,     \* the register table iterated by main (REG_MAP)
    fault      \* Err payload that made an unwrap() panic, or "none"

vars == <<pc, wr, self, it, r, spi_cs, ce_pin, led_pin, buf, delaying, now,
          log, table, fault>>

----------------------------------------------------------------------------
(* Register model: lmx2594.rs *)

\* REG_MAP with entry 36 typed as 0x190800 instead of 0x240800
REG_MAP_Typo ==
<<
    9244, 67592, 132352, 198210, 264771, 327880, 444418, 475314,
    532480, 591364, 659672, 720920, 806913, 868352, 925296, 984655,
    1048704, 1114392, 1179748, 1255351, 1366088, 1377281, 1441793, 1507452,
    1574682, 1641515, 1707440, 1769474, 1836168, 1913228, 1978764, 2049004,
    2098067, 2170401, 2228224, 2293764, 1640448, 2425604, 2490368, 2555905,
    2621440, 2686976, 2752512, 2818048, 2891683, 2998495, 3016700, 3080960,
    3146496, 3228032, 3276800, 3342464, 3409952, 3473408, 3538944, 3604480,
    3670016, 3735584, 3833857, 3866625, 3932160, 3997864, 4064034, 4128768,
    4199304, 4259840, 4325876, 4390912, 4457448, 4521984, 4637520, 4653185,
    4718593, 4784191, 4849664, 4918144, 4980748, 5046272, 5112003, 5177344,
    5242880, 5308416, 5373952, 5439488, 5505024, 5570560, 5636096, 5701632,
    5767168, 5832704, 5898240, 5963776, 6029312, 6094848, 6160384, 6225920,
    6291456, 6359176, 6422528, 6488064, 6553600, 6619153, 6684672, 6750208,
    6815744, 6881313, 6946816, 7012352, 7077888, 7143424, 7208960, 7274496,
    7340032
>>

REG_MAP ==
<<
    9244, 67592, 132352, 198210, 264771, 327880, 444418, 475314,
    532480, 591364, 659672, 720920, 806913, 868352, 925296, 984655,
    1048704, 1114392, 1179748, 1255351, 1366088, 1377281, 1441793, 1507452,
    1574682, 1641515, 1707440, 1769474, 1836168, 1913228, 1978764, 2049004,
    2098067, 2170401, 2228224, 2293764, 2361344, 2425604, 2490368, 2555905,
    2621440, 2686976, 2752512, 2818048, 2891683, 2998495, 3016700, 3080960,
    3146496, 3228032, 3276800, 3342464, 3409952, 3473408, 3538944, 3604480,
    3670016, 3735584, 3833857, 3866625, 3932160, 3997864, 4064034, 4128768,
    4199304, 4259840, 4325876, 4390912, 4457448, 4521984, 4637520, 4653185,
    4718593, 4784191, 4849664, 4918144, 4980748, 5046272, 5112003, 5177344,
    5242880, 5308416, 5373952, 5439488, 5505024, 5570560, 5636096, 5701632,
    5767168, 5832704, 5898240, 5963776, 6029312, 6094848, 6160384, 6225920,
    6291456, 6359176, 6422528, 6488064, 6553600, 6619153, 6684672, 6750208,
    6815744, 6881313, 6946816, 7012352, 7077888, 7143424, 7208960, 7274496,
    7340032
>>

\* 0x002414
FCAL_EN_OFF == 9236
\* FCAL_EN_ON taken from the wrong index, REG_MAP[1]
FCAL_EN_ON_WrongIndex == REG_MAP[2]

\* REG_MAP[0] (Rust index 0 is TLA+ index 1), 0x00241c
FCAL_EN_ON == REG_MAP[1]
\* RESET_ON with the read/write bit (bit 23) set, 0x80241e
RESET_ON_ReadBit == 9246 + 8388608

\* 0x00241e
RESET_ON == 9246
\* REG_MAP[0]
RESET_OFF == REG_MAP[1]

\* u32::to_be_bytes: the four octets of a 32-bit value, most significant first
to_be_bytes(w) ==
    << (w \div 16777216) % 256, (w \div 65536) % 256, (w \div 256) % 256, w % 256 >>

\* reg() with the three octets in little-endian order
regLittleEndian(w) ==
    LET b == to_be_bytes(w) IN << b[4], b[3], b[2] >>

\* reg() keeping the first three octets and dropping the least significant
regDropLast(w) ==
    LET b == to_be_bytes(w) IN << b[1], b[2], b[3] >>

\* reg(): the big-endian octets with the most significant one dropped
reg(w) ==
    LET b == to_be_bytes(w) IN << b[2], b[3], b[4] >>

----------------------------------------------------------------------------
(* Sequencer: main.rs *)

\* delay.delay_ms(10): the argument at every call site
SETTLE_MS == 10

\* the lines of main that call write_reg, and the lines that call delay_ms
WriteSites == {"L168", "L171", "L175", "L180", "L183"}
DelaySites == {"L160", "L164", "L169", "L172", "L176", "L178", "L181", "L184"}

\* Receiver with reset asserted again at main.rs:171
ReceiverResetStuck(site) ==
    CASE site = "L168" -> RESET_ON
      [] site = "L171" -> RESET_ON
      [] site = "L175" -> r
      [] site = "L180" -> FCAL_EN_ON
      [] site = "L183" -> FCAL_EN_OFF

\* Receiver with calibration left enabled at main.rs:183
ReceiverNoCalOff(site) ==
    CASE site = "L168" -> RESET_ON
      [] site = "L171" -> RESET_OFF
      [] site = "L175" -> r
      [] site = "L180" -> FCAL_EN_ON
      [] site = "L183" -> FCAL_EN_ON

\* Receiver with the two calibration words exchanged
ReceiverCalSwapped(site) ==
    CASE site = "L168" -> RESET_ON
      [] site = "L171" -> RESET_OFF
      [] site = "L175" -> r
      [] site = "L180" -> FCAL_EN_OFF
      [] site = "L183" -> FCAL_EN_ON

\* the receiver of the write_reg call at each call site
Receiver(site) ==
    CASE site = "L168" -> RESET_ON
      [] site = "L171" -> RESET_OFF
      [] site = "L175" -> r
      [] site = "L180" -> FCAL_EN_ON
      [] site = "L183" -> FCAL_EN_OFF

\* Succ with the chip enabled before the select line is driven idle
SuccCeFirst(site) ==
    CASE site = "L156" -> "L163"
      [] site = "L163" -> "L164"
      [] site = "L164" -> "L159"
      [] site = "L159" -> "L160"
      [] site = "L160" -> "L166"
      [] site = "L166" -> "L168"
      [] site = "L168" -> "L169"
      [] site = "L169" -> "L171"
      [] site = "L171" -> "L172"
      [] site = "L172" -> "L174"
      [] site = "L175" -> "L176"
      [] site = "L176" -> "L174_next"
      [] site = "L178" -> "L180"
      [] site = "L180" -> "L181"
      [] site = "L181" -> "L183"
      [] site = "L183" -> "L184"
      [] site = "L184" -> "L186"
      [] site = "L186" -> "L189"

\* the statement that follows each statement of main
Succ(site) ==
    CASE site = "L156" -> "L159"
      [] site = "L159" -> "L160"
      [] site = "L160" -> "L163"
      [] site = "L163" -> "L164"
      [] site = "L164" -> "L166"
      [] site = "L166" -> "L168"
      [] site = "L168" -> "L169"
      [] site = "L169" -> "L171"
      [] site = "L171" -> "L172"
      [] site = "L172" -> "L174"
      [] site = "L175" -> "L176"
      [] site = "L176" -> "L174_next"
      [] site = "L178" -> "L180"
      [] site = "L180" -> "L181"
      [] site = "L181" -> "L183"
      [] site = "L183" -> "L184"
      [] site = "L184" -> "L186"
      [] site = "L186" -> "L189"

Event(op, arg) == [op |-> op, at |-> pc, arg |-> arg]

Levels == {"low", "high"}

\* State when main reaches line 156: the pins are push-pull outputs whose
\* level main has not set yet, nothing has been sent, buf does not exist.
InitOf(t) ==
    /\ pc = "L156"
    /\ wr = "idle"
    /\ self = 0
    /\ it = 0
    /\ r = 0
    /\ spi_cs \in Levels
    /\ ce_pin \in Levels
    /\ led_pin \in Levels
    /\ buf = << >>
    /\ delaying = FALSE
    /\ now = 0
    /\ log = << >>
    /\ table = t
    /\ fault = "none"

\* the program as built: main iterates REG_MAP
Init == InitOf(REG_MAP)

\* the 3-entry table of the end-to-end scenario: addresses 0, 1, 2 with data
\* 0x241c, 0x0808, 0x0500
ScenarioTable == << 9244, 67592, 132352 >>

\* the sequencer run on the full table or on the scenario's table
InitTables == \E t \in {REG_MAP, ScenarioTable} : InitOf(t)

\* main.rs:156  led_pin.set_high()
LedOn ==
    /\ pc = "L156"
    /\ led_pin' = "high"
    /\ log' = Append(log, Event("led_high", << >>))
    /\ pc' = Succ(pc)
    /\ UNCHANGED <<wr, self, it, r, spi_cs, ce_pin, buf, delaying, now, table, fault>>

\* main.rs:159  spi_cs.set_high()
CsIdle ==
    /\ pc = "L159"
    /\ spi_cs' = "high"
    /\ log' = Append(log, Event("cs_high", << >>))
    /\ pc' = Succ(pc)
    /\ UNCHANGED <<wr, self, it, r, ce_pin, led_pin, buf, delaying, now, table, fault>>

\* delay.delay_ms(10) is entered: the thread blocks
DelayBegin ==
    /\ pc \in DelaySites
    /\ ~delaying
    /\ delaying' = TRUE
    /\ UNCHANGED <<pc, wr, self, it, r, spi_cs, ce_pin, led_pin, buf, now, log, table, fault>>

\* DelayEnd for a delay that never returns
DelayHang ==
    /\ pc \in DelaySites
    /\ delaying
    /\ UNCHANGED vars

\* delay.delay_ms(10) returns after the time has elapsed
DelayEnd ==
    /\ pc \in DelaySites
    /\ delaying
    /\ delaying' = FALSE
    /\ now' = now + SETTLE_MS
    /\ log' = Append(log, Event("delay", << SETTLE_MS >>))
    /\ pc' = Succ(pc)
    /\ UNCHANGED <<wr, self, it, r, spi_cs, ce_pin, led_pin, buf, table, fault>>

\* main.rs:163  ce_pin.set_high()
CeOn ==
    /\ pc = "L163"
    /\ ce_pin' = "high"
    /\ log' = Append(log, Event("ce_high", << >>))
    /\ pc' = Succ(pc)
    /\ UNCHANGED <<wr, self, it, r, spi_cs, led_pin, buf, delaying, now, table, fault>>

\* main.rs:166  let mut buf: [u8; 3] = [0; 3]
BufInit ==
    /\ pc = "L166"
    /\ buf' = << 0, 0, 0 >>
    /\ pc' = Succ(pc)
    /\ UNCHANGED <<wr, self, it, r, spi_cs, ce_pin, led_pin, delaying, now, log, table, fault>>

\* lmx2594.rs:177  write_reg is entered and spi_cs.set_low() runs
WriteRegSetLow ==
    /\ pc \in WriteSites
    /\ wr = "idle"
    /\ self' = Receiver(pc)
    /\ spi_cs' = "low"
    /\ log' = Append(log, Event("cs_low", << >>))
    /\ wr' = "L178"
    /\ UNCHANGED <<pc, it, r, ce_pin, led_pin, buf, delaying, now, table, fault>>

\* WriteRegEncode without the assignment: buf keeps its previous contents
WriteRegEncodeSkipped ==
    /\ wr = "L178"
    /\ wr' = "L179"
    /\ UNCHANGED <<pc, self, it, r, spi_cs, ce_pin, led_pin, buf, delaying, now, log, table, fault>>

\* lmx2594.rs:178  *buf = self.reg()
WriteRegEncode ==
    /\ wr = "L178"
    /\ buf' = reg(self)
    /\ wr' = "L179"
    /\ UNCHANGED <<pc, self, it, r, spi_cs, ce_pin, led_pin, delaying, now, log, table, fault>>

\* lmx2594.rs:179  spi.write(buf).unwrap() with the write returning Ok
WriteRegSpiWrite ==
    /\ wr = "L179"
    /\ log' = Append(log, Event("tx", buf))
    /\ wr' = "L180"
    /\ UNCHANGED <<pc, self, it, r, spi_cs, ce_pin, led_pin, buf, delaying, now, table, fault>>

\* WriteRegSetHigh without the set_high: write_reg returns with select active
WriteRegNoSetHigh ==
    /\ wr = "L180"
    /\ wr' = "idle"
    /\ pc' = Succ(pc)
    /\ UNCHANGED <<self, it, r, spi_cs, ce_pin, led_pin, buf, delaying, now, log, table, fault>>

\* lmx2594.rs:180  spi_cs.set_high(), and write_reg returns to main
WriteRegSetHigh ==
    /\ wr = "L180"
    /\ spi_cs' = "high"
    /\ log' = Append(log, Event("cs_high", << >>))
    /\ wr' = "idle"
    /\ pc' = Succ(pc)
    /\ UNCHANGED <<self, it, r, ce_pin, led_pin, buf, delaying, now, table, fault>>

\* ForInit with the iterator one element short
ForInitShort ==
    /\ pc = "L174"
    /\ it' = Len(table) - 1
    /\ pc' = "L174_next"
    /\ UNCHANGED <<wr, self, r, spi_cs, ce_pin, led_pin, buf, delaying, now, log, table, fault>>

\* main.rs:174  REG_MAP.iter().rev(): the iterator is created
ForInit ==
    /\ pc = "L174"
    /\ it' = Len(table)
    /\ pc' = "L174_next"
    /\ UNCHANGED <<wr, self, r, spi_cs, ce_pin, led_pin, buf, delaying, now, log, table, fault>>

\* ForNext without the delay of main.rs:178 after the loop
ForNextNoExtraDelay ==
    /\ pc = "L174_next"
    /\ IF it > 0
         THEN /\ r' = table[it]
              /\ it' = it - 1
              /\ pc' = "L175"
         ELSE /\ pc' = "L180"
              /\ UNCHANGED <<r, it>>
    /\ UNCHANGED <<wr, self, spi_cs, ce_pin, led_pin, buf, delaying, now, log, table, fault>>

\* ForNext without .rev(): yields the first element not yet yielded
ForNextForward ==
    /\ pc = "L174_next"
    /\ IF it > 0
         THEN /\ r' = table[Len(table) + 1 - it]
              /\ it' = it - 1
              /\ pc' = "L175"
         ELSE /\ pc' = "L178"
              /\ UNCHANGED <<r, it>>
    /\ UNCHANGED <<wr, self, spi_cs, ce_pin, led_pin, buf, delaying, now, log, table, fault>>

\* main.rs:174  Rev::next(): yields the last element not yet yielded
\* (Rust index it-1 is TLA+ index it), or ends the loop
ForNext ==
    /\ pc = "L174_next"
    /\ IF it > 0
         THEN /\ r' = table[it]
              /\ it' = it - 1
              /\ pc' = "L175"
         ELSE /\ pc' = "L178"
              /\ UNCHANGED <<r, it>>
    /\ UNCHANGED <<wr, self, spi_cs, ce_pin, led_pin, buf, delaying, now, log, table, fault>>

\* LedOff driving the chip-enable pin low instead of the LED
LedOffWrongPin ==
    /\ pc = "L186"
    /\ ce_pin' = "low"
    /\ log' = Append(log, Event("ce_low", << >>))
    /\ pc' = Succ(pc)
    /\ UNCHANGED <<wr, self, it, r, spi_cs, led_pin, buf, delaying, now, table, fault>>

\* main.rs:186  led_pin.set_low()
LedOff ==
    /\ pc = "L186"
    /\ led_pin' = "low"
    /\ log' = Append(log, Event("led_low", << >>))
    /\ pc' = Succ(pc)
    /\ UNCHANGED <<wr, self, it, r, spi_cs, ce_pin, buf, delaying, now, table, fault>>

\* IdleLoop with the calibration write of main.rs:190 left in the loop
IdleLoopRetrigger ==
    /\ pc = "L189"
    /\ pc' = "L180"
    /\ UNCHANGED <<wr, self, it, r, spi_cs, ce_pin, led_pin, buf, delaying, now, log, table, fault>>

\* main.rs:189  loop {}
IdleLoop ==
    /\ pc = "L189"
    /\ UNCHANGED vars

Next ==
    \/ LedOn
    \/ CsIdle
    \/ DelayBegin
    \/ DelayEnd
    \/ CeOn
    \/ BufInit
    \/ WriteRegSetLow
    \/ WriteRegEncode
    \/ WriteRegSpiWrite
    \/ WriteRegSetHigh
    \/ ForInit
    \/ ForNext
    \/ LedOff
    \/ IdleLoop

Spec == Init /\ [][Next]_vars

\* the single thread always executes its next statement, and a delay returns
SpecLive == Spec /\ WF_vars(Next)

SpecTables == InitTables /\ [][Next]_vars

----------------------------------------------------------------------------
(* A serial transport that can fail.  spi.write returns a Result; on the  *)
(* RP2040 HAL its error type is Infallible ("All Results are Infallible"), *)
(* so Spec has no such step.  SpecFault adds the Err arm of the unwrap()   *)
(* at lmx2594.rs:179 for a transport that reports a fault.                 *)

\* WriteRegSpiWriteErr with the Result discarded instead of unwrapped:
\* write_reg carries on at line 180
WriteRegSpiWriteErrIgnored ==
    /\ wr = "L179"
    /\ \E n \in 0..Len(buf) : log' = Append(log, Event("tx_err", SubSeq(buf, 1, n)))
    /\ fault' = "TransportFault"
    /\ wr' = "L180"
    /\ UNCHANGED <<pc, self, it, r, spi_cs, ce_pin, led_pin, buf, delaying, now, table>>

\* what the transport shifted out before it failed: any prefix of buf
TxPrefixes == {SubSeq(buf, 1, n) : n \in 0..Len(buf)}

\* lmx2594.rs:179  spi.write(buf) returns Err(e): unwrap() panics, and the
\* panic handler (panic_halt) takes over; write_reg never reaches line 180
WriteRegSpiWriteErr ==
    /\ wr = "L179"
    /\ \E sent \in TxPrefixes : log' = Append(log, Event("tx_err", sent))
    /\ fault' = "TransportFault"
    /\ wr' = "panic"
    /\ pc' = "panic"
    /\ UNCHANGED <<self, it, r, spi_cs, ce_pin, led_pin, buf, delaying, now, table>>

\* panic_halt's handler: loop {} forever
PanicHalt ==
    /\ pc = "panic"
    /\ UNCHANGED vars

\* fn main() -> ! and fn write_reg(..) (unit): neither hands a value back,
\* so whatever invoked the sequence never receives anything from it
Surfaced == "none"

NextFault ==
    \/ Next
    \/ WriteRegSpiWriteErr
    \/ PanicHalt

SpecFault == Init /\ [][NextFault]_vars

----------------------------------------------------------------------------
(* Reading the log *)

\* the 24-bit word the device's shift register holds after three octets,
\* most significant first
Decode(oct) == oct[1] * 65536 + oct[2] * 256 + oct[3]

\* [R/W bit] [7-bit address] [16-bit data field]
Address(w) == (w \div 65536) % 128

\* bit n of a word
Bit(w, n) == (w \div (2 ^ n)) % 2

IsTx(e) == e.op = "tx"
IsDelay(e) == e.op = "delay"

\* the completed serial transmissions, in order
Tx == SelectSeq(log, IsTx)

\* the words written so far, as the device received them
TxWords == [k \in 1..Len(Tx) |-> Decode(Tx[k].arg)]

\* position in the log of the (first) transmission made from a call site,
\* 0 if there is none yet
PosOf(site) ==
    LET S == {k \in 1..Len(log) : IsTx(log[k]) /\ log[k].at = site}
    IN IF S = {} THEN 0 ELSE CHOOSE k \in S : \A j \in S : k <= j

\* number of transmissions made from a call site
CountAt(site) == Cardinality({k \in 1..Len(log) : IsTx(log[k]) /\ log[k].at = site})

Reverse(s) == [k \in 1..Len(s) |-> s[Len(s) + 1 - k]]

\* main has reached the empty loop of main.rs:189
Done == pc = "L189"


----------------------------------------------------------------------------
(* Claims *)

\* the transmissions of the Programming phase: those after the
\* reset-deassert write (main.rs:171) and before the calibration-enable
\* retrigger write (main.rs:180)
ProgPhase ==
    IF PosOf("L171") = 0 THEN << >>
    ELSE SelectSeq(SubSeq(log, PosOf("L171") + 1,
                          IF PosOf("L180") = 0 THEN Len(log) ELSE PosOf("L180") - 1),
                   IsTx)

ProgAddrs == [k \in 1..Len(ProgPhase) |-> Address(Decode(ProgPhase[k].arg))]

\* C1: the addresses written during the Programming phase are strictly
\* descending and start at N-1 = 112; once the phase is over (the
\* calibration-enable retrigger write has been sent) they end at 0 and every
\* index of the table occurs exactly once.
C1_ProgrammingDescending ==
    LET p == ProgAddrs
        N == Len(table)
    IN /\ \A j \in 1..(Len(p) - 1) : p[j] > p[j + 1]
       /\ Len(p) > 0 => (p[1] = N - 1 /\ p[1] = 112)
       /\ PosOf("L180") # 0 =>
             /\ p[Len(p)] = 0
             /\ \A a \in 0..(N - 1) : Cardinality({j \in 1..Len(p) : p[j] = a}) = 1
             /\ \A j \in 1..Len(p) : p[j] \in 0..(N - 1)

C1_Witness ==
    /\ PosOf("L180") # 0
    /\ Len(ProgAddrs) = 113
    /\ ProgAddrs[1] = 112
    /\ ProgAddrs[113] = 0

\* the trace of a full run: reset-assert, reset-deassert, the table from its
\* last entry to its first, calibration-enable, calibration-disable
FullTrace == << RESET_ON, RESET_OFF >> \o Reverse(table) \o << FCAL_EN_ON, FCAL_EN_OFF >>

\* the transmission at log position k is followed by the select line going
\* idle and then by a completed 10 ms delay, with nothing in between
DelayFollows(k) ==
    /\ k + 2 <= Len(log)
    /\ log[k + 1].op = "cs_high"
    /\ log[k + 2].op = "delay"
    /\ log[k + 2].arg = << 10 >>

\* C2: the words written are always a prefix of (reset-assert,
\* reset-deassert, table[N-1], ..., table[0], calibration-enable,
\* calibration-disable); at the end of a run they are exactly that sequence;
\* for the 3-entry table the address trace is 0, 0, 2, 1, 0, 0, 0; and a
\* 10 ms delay follows each write.
C2_FullTrace ==
    /\ Len(TxWords) <= Len(FullTrace)
    /\ TxWords = SubSeq(FullTrace, 1, Len(TxWords))
    /\ Done =>
          /\ TxWords = FullTrace
          /\ Len(table) = 3 =>
                [k \in 1..Len(TxWords) |-> Address(TxWords[k])] = << 0, 0, 2, 1, 0, 0, 0 >>
          /\ \A k \in 1..Len(log) : IsTx(log[k]) => DelayFollows(k)

C2_Witness ==
    /\ Done
    /\ table = ScenarioTable
    /\ Len(TxWords) = 7
    /\ TxWords[3] = 132352

\* C3: a full run issues len(table) + 4 = 117 framed writes: one from each
\* of the four control call sites and one per table entry; at no time has
\* any call site written more than that.
C3_WriteCount ==
    /\ CountAt("L168") <= 1 /\ CountAt("L171") <= 1
    /\ CountAt("L180") <= 1 /\ CountAt("L183") <= 1
    /\ CountAt("L175") <= Len(table)
    /\ Len(Tx) = CountAt("L168") + CountAt("L171") + CountAt("L175")
                   + CountAt("L180") + CountAt("L183")
    /\ Done =>
          /\ Len(Tx) = Len(table) + 4
          /\ Len(Tx) = 117
          /\ CountAt("L175") = Len(table)
          /\ \A k \in 1..(Len(Tx) - 1) : Tx[k].at # "L175" => Tx[k + 1].at # Tx[k].at

C3_Witness ==
    /\ Done
    /\ Len(Tx) = 117
    /\ CountAt("L175") = 113

\* positions in the log of the failed transmissions
TxErrs == {k \in 1..Len(log) : log[k].op = "tx_err"}

LastWordTo(a) ==
    LET S == {k \in 1..Len(TxWords) : Address(TxWords[k]) = a}
    IN IF S = {} THEN 0 ELSE TxWords[CHOOSE k \in S : \A j \in S : j <= k]

\* C5: the first write is reset-assert (address 0, bit 1 set); the
\* reset-deassert write (address 0, bit 1 clear) follows it with only the
\* select-idle edge, one delay and the select-active edge in between; every
\* other write comes after the reset-deassert write; from the second write on,
\* and at the end of the run, the word last written to address 0 has bit 1
\* clear.
C5_ResetSequence ==
    LET a == PosOf("L168")
        b == PosOf("L171")
    IN /\ \A k \in 1..Len(log) :
             (IsTx(log[k]) /\ log[k].at # "L168") => (a # 0 /\ a < k)
       /\ \A k \in 1..Len(log) :
             (IsTx(log[k]) /\ log[k].at \notin {"L168", "L171"}) => (b # 0 /\ b < k)
       /\ a # 0 => (Address(Decode(log[a].arg)) = 0 /\ Bit(Decode(log[a].arg), 1) = 1)
       /\ b # 0 =>
             /\ b = a + 4
             /\ log[a + 1].op = "cs_high"
             /\ log[a + 2].op = "delay"
             /\ log[a + 3].op = "cs_low"
             /\ Address(Decode(log[b].arg)) = 0
             /\ Bit(Decode(log[b].arg), 1) = 0
       /\ Len(Tx) >= 2 => Bit(LastWordTo(0), 1) = 0
       /\ Done => (Len(Tx) >= 2 /\ Bit(LastWordTo(0), 1) = 0)

C5_Witness ==
    /\ Done
    /\ PosOf("L171") = PosOf("L168") + 4
    /\ Bit(TxWords[1], 1) = 1
    /\ Bit(LastWordTo(0), 1) = 0

\* C6: the chip-enable edge is immediately preceded by a completed 10 ms delay
\* and that by the select-idle edge; every select-active edge and every
\* transmission comes after the chip-enable edge and a completed delay after
\* it; when main is about to enable the chip the select line is idle and
\* 10 ms have passed, and during any framed write the chip is enabled and
\* 20 ms have passed.
C6_LineSetupOrder ==
    /\ \A k \in 1..Len(log) :
          log[k].op = "ce_high" =>
              /\ k > 2
              /\ log[k - 1].op = "delay" /\ log[k - 1].arg = << 10 >>
              /\ log[k - 2].op = "cs_high"
    /\ \A k \in 1..Len(log) :
          log[k].op \in {"cs_low", "tx"} =>
              \E j \in 1..(k - 2) :
                  /\ log[j].op = "ce_high"
                  /\ log[j + 1].op = "delay" /\ log[j + 1].arg = << 10 >>
    /\ pc = "L163" => (spi_cs = "high" /\ now >= 10)
    /\ wr # "idle" => (ce_pin = "high" /\ now >= 20)
    /\ pc \in {"L156", "L159", "L160", "L163"} => Len(Tx) = 0

C6_Witness ==
    /\ pc = "L168"
    /\ wr = "L180"
    /\ Len(Tx) = 1
    /\ now = 20
    /\ ce_pin = "high"

\* the select line as the log leaves it before position k ("unset" if main
\* has not driven it yet)
CsBefore(k) ==
    LET S == {j \in 1..(k - 1) : log[j].op \in {"cs_low", "cs_high"}}
    IN IF S = {} THEN "unset" ELSE log[CHOOSE j \in S : \A m \in S : m <= j].op

\* C7: whenever main is at a delay (about to begin it, or inside it) the
\* select line is idle and no write_reg is in progress; outside write_reg,
\* once line 159 has run, the select line is idle (so it is when a delay has
\* just ended); every completed delay in the log began with the select line
\* idle.
C7_NoOpenTransactionAcrossDelay ==
    /\ pc \in DelaySites => (spi_cs = "high" /\ wr = "idle")
    /\ delaying => (pc \in DelaySites /\ spi_cs = "high")
    /\ (wr = "idle" /\ pc \notin {"L156", "L159"}) => spi_cs = "high"
    /\ \A k \in 1..Len(log) : IsDelay(log[k]) => CsBefore(k) = "cs_high"

C7_Witness ==
    /\ delaying
    /\ pc = "L176"
    /\ spi_cs = "high"
    /\ Len(Tx) = 60

\* number of completed delays in the log before position k
DelaysBefore(k) == Cardinality({j \in 1..(k - 1) : IsDelay(log[j])})

\* position in the log of the last transmission made from a call site
LastPosOf(site) ==
    LET S == {k \in 1..Len(log) : IsTx(log[k]) /\ log[k].at = site}
    IN IF S = {} THEN 0 ELSE CHOOSE k \in S : \A j \in S : j <= k

\* C8: every framed write starts right after a completed 10 ms delay, and
\* each transmission already followed by two events is followed by select
\* idle and a 10 ms delay; no write_reg runs during a delay; exactly two
\* delays lie between the in-table write of address 0 and the
\* calibration-enable write; a full run has made 120 delays (1200 ms).
C8_SettleDelays ==
    /\ \A k \in 1..Len(log) :
          log[k].op = "cs_low" =>
              (k > 1 /\ log[k - 1].op = "delay" /\ log[k - 1].arg = << 10 >>)
    /\ \A k \in 1..Len(log) :
          (IsTx(log[k]) /\ k + 2 <= Len(log)) =>
              /\ log[k + 1].op = "cs_high"
              /\ log[k + 2].op = "delay" /\ log[k + 2].arg = << 10 >>
    /\ delaying => wr = "idle"
    /\ now = SETTLE_MS * DelaysBefore(Len(log) + 1)
    /\ PosOf("L180") # 0 =>
          /\ LastPosOf("L175") # 0
          /\ Address(Decode(log[LastPosOf("L175")].arg)) = 0
          /\ DelaysBefore(PosOf("L180")) - DelaysBefore(LastPosOf("L175")) = 2
    /\ Done =>
          /\ DelaysBefore(Len(log) + 1) = 120
          /\ DelaysBefore(Len(log) + 1) = 2 + Len(Tx) + 1
          /\ now = 1200

C8_Witness ==
    /\ PosOf("L180") # 0
    /\ PosOf("L183") = 0
    /\ DelaysBefore(PosOf("L180")) = 118
    /\ DelaysBefore(LastPosOf("L175")) = 116

\* C9: once the calibration-enable write of main.rs:180 has been sent, the
\* loop has already written the whole table, its last write being address 0,
\* and the two are separate frames; at the end of the run the last three
\* writes are the in-table address-0 word, the same word again from line 180
\* (bit 3 set), and the calibration-disable word from line 183 (bit 3
\* clear), so the word last written to address 0 has bit 3 clear.
C9_CalibrationRetrigger ==
    /\ PosOf("L180") # 0 =>
          /\ CountAt("L175") = Len(table)
          /\ LastPosOf("L175") < PosOf("L180")
          /\ \E j \in (LastPosOf("L175") + 1)..(PosOf("L180") - 1) : log[j].op = "cs_high"
          /\ \E j \in (LastPosOf("L175") + 1)..(PosOf("L180") - 1) : log[j].op = "cs_low"
          /\ Bit(Decode(log[PosOf("L180")].arg), 3) = 1
    /\ Done =>
          LET n == Len(Tx)
          IN /\ n >= 3
             /\ Tx[n].at = "L183"
             /\ TxWords[n] = FCAL_EN_OFF
             /\ Address(TxWords[n]) = 0 /\ Bit(TxWords[n], 3) = 0
             /\ Tx[n - 1].at = "L180"
             /\ TxWords[n - 1] = FCAL_EN_ON
             /\ Address(TxWords[n - 1]) = 0 /\ Bit(TxWords[n - 1], 3) = 1
             /\ Tx[n - 2].at = "L175"
             /\ Address(TxWords[n - 2]) = 0
             /\ Bit(LastWordTo(0), 3) = 0

C9_Witness ==
    /\ Done
    /\ Tx[Len(Tx) - 1].at = "L180"
    /\ Tx[Len(Tx)].at = "L183"
    /\ Bit(LastWordTo(0), 3) = 0

\* C10: the table has 113 entries and the 7-bit address field (bits 22..16)
\* of entry i is i; so the word the loop is about to write, or is writing,
\* carries the address equal to the number of entries still to come.
C10_TableAddress ==
    /\ Len(table) = 113
    /\ \A k \in 1..Len(table) : Address(table[k]) = k - 1
    /\ pc = "L175" => Address(r) = it

C10_Witness ==
    /\ pc = "L175"
    /\ wr = "L180"
    /\ it = 36
    /\ Address(Decode(buf)) = 36
    /\ Address(table[37]) = 36

\* the four control constants
ControlWords == {RESET_ON, RESET_OFF, FCAL_EN_ON, FCAL_EN_OFF}

\* the bit positions of the 24-bit word in which two words differ
DiffBits(v, w) == {n \in 0..23 : Bit(v, n) # Bit(w, n)}

\* C11: the reset-deassert word equals the calibration-enable word, and both
\* equal table[0]; calibration-enable and calibration-disable differ in bit 3
\* only, which is set in the former and clear in the latter; all four control
\* words carry address 0; and on the bus the octets sent from main.rs:171
\* and main.rs:180 are the same.
C11_ControlConstants ==
    /\ RESET_OFF = FCAL_EN_ON
    /\ RESET_OFF = table[1]
    /\ DiffBits(FCAL_EN_ON, FCAL_EN_OFF) = {3}
    /\ to_be_bytes(FCAL_EN_ON)[1] = to_be_bytes(FCAL_EN_OFF)[1]
    /\ Bit(FCAL_EN_ON, 3) = 1 /\ Bit(FCAL_EN_OFF, 3) = 0
    /\ \A w \in ControlWords : Address(w) = 0
    /\ (PosOf("L171") # 0 /\ PosOf("L180") # 0) =>
          log[PosOf("L171")].arg = log[PosOf("L180")].arg
    /\ PosOf("L183") # 0 =>
          DiffBits(Decode(log[PosOf("L180")].arg), Decode(log[PosOf("L183")].arg)) = {3}

C11_Witness ==
    /\ Done
    /\ log[PosOf("L171")].arg = log[PosOf("L180")].arg
    /\ Decode(log[PosOf("L183")].arg) = Decode(log[PosOf("L180")].arg) - 8
    /\ Address(Decode(log[PosOf("L168")].arg)) = 0

\* every word the program ever hands to write_reg
AllWords == {table[k] : k \in 1..Len(table)} \cup ControlWords

\* C12: for every table entry and control constant, reassembling the three
\* octets of reg() big-endian gives the word back, and the most significant
\* octet of its 32-bit container is zero; so whenever write_reg has encoded
\* its word, the buffer decodes to that word.
C12_EncodeRoundTrip ==
    /\ \A w \in AllWords :
          /\ Len(reg(w)) = 3
          /\ Decode(reg(w)) = w
          /\ to_be_bytes(w)[1] = 0
          /\ w \in 0..(2 ^ 24 - 1)
    /\ wr \in {"L179", "L180"} => Decode(buf) = self

C12_Witness ==
    /\ wr = "L180"
    /\ self = 4637520
    /\ buf = << 70, 195, 80 >>
    /\ Decode(log[Len(log)].arg) = self

\* the terminal Idle state: the delay of main.rs:184 has ended
Idle == pc \in {"L186", "L189"}

IsBus(e) == e.op \in {"cs_low", "cs_high", "tx"}

\* the select-line edges and serial transmissions so far
BusLog == SelectSeq(log, IsBus)

\* C13: in the terminal Idle state the select line is idle, no write_reg and
\* no delay is in progress and all 117 writes have been made; and every step
\* taken from it stays in it, leaves the select line alone and adds no
\* select edge and no transmission to the log.
C13_IdleIsQuiet ==
    /\ [](Idle => (spi_cs = "high" /\ wr = "idle" /\ ~delaying /\ Len(Tx) = 117))
    /\ [][Idle => (Idle' /\ wr' = "idle" /\ spi_cs' = spi_cs /\ BusLog' = BusLog)]_vars

C13_Witness ==
    /\ pc = "L189"
    /\ led_pin = "low"
    /\ spi_cs = "high"
    /\ log[Len(log)].op = "led_low"
    /\ Len(BusLog) = 352

\* the phases in order: 0 PoweredOff, 1 LineIdle, 2 ChipEnabled, 3 InReset,
\* 4 ResetCleared, 5 + (N-1-a) Programming(a) for a = N-1 down to 0,
\* N+5 CalibrationTriggered, N+6 CalibrationSettled, N+7 Idle; a phase is
\* entered when the delay that closes its transition has ended
PhaseNo ==
    CASE pc \in {"L156", "L159", "L160"} -> 0
      [] pc \in {"L163", "L164"} -> 1
      [] pc \in {"L166", "L168", "L169"} -> 2
      [] pc \in {"L171", "L172"} -> 3
      [] pc = "L174" -> 4
      [] pc \in {"L174_next", "L175", "L176"} -> 4 + Len(table) - it
      [] pc \in {"L178", "L180", "L181"} -> 4 + Len(table)
      [] pc \in {"L183", "L184"} -> 5 + Len(table)
      [] pc = "L186" -> 6 + Len(table)
      [] pc = "L189" -> 7 + Len(table)

\* C14: with no transport fault, the run starts in PoweredOff, every step
\* either stays in its phase or moves to the next one in the fixed order
\* (never back, never skipping), and the run eventually reaches the terminal
\* Idle phase and stays there.
C14_RunsToCompletion ==
    /\ PhaseNo = 0
    /\ [][PhaseNo' = PhaseNo \/ PhaseNo' = PhaseNo + 1]_vars
    /\ <>[](Done /\ PhaseNo = 120)

C14_Witness ==
    /\ Done
    /\ PhaseNo = 120
    /\ now = 1200
    /\ fault = "none"

\* the three octets of a word, bits 23..16, then 15..8, then 7..0
Octets(w) == << (w \div 65536) % 256, (w \div 256) % 256, w % 256 >>

\* C15: every transmission in the log carries exactly 3 octets, each in
\* 0..255, is immediately preceded by the select-active edge and (once the
\* next event exists) immediately followed by the select-idle edge; every
\* select-active edge is followed by a transmission; the octets of the j-th
\* transmission are bits 23..16, 15..8, 7..0 of the j-th word of the run;
\* and write_reg holds the select line active from line 178 to line 180, so
\* no octet is sent while it is idle.
C15_FrameShape ==
    /\ \A k \in 1..Len(log) :
          IsTx(log[k]) =>
              /\ Len(log[k].arg) = 3
              /\ \A n \in 1..3 : log[k].arg[n] \in 0..255
              /\ k > 1 /\ log[k - 1].op = "cs_low"
              /\ k < Len(log) => log[k + 1].op = "cs_high"
    /\ \A k \in 1..(Len(log) - 1) : log[k].op = "cs_low" => IsTx(log[k + 1])
    /\ \A k \in 1..Len(log) :
          (log[k].op = "cs_high" /\ log[k].at # "L159") => (k > 1 /\ IsTx(log[k - 1]))
    /\ \A j \in 1..Len(Tx) : Tx[j].arg = Octets(FullTrace[j])
    /\ wr \in {"L178", "L179", "L180"} => spi_cs = "low"

C15_Witness ==
    /\ pc = "L175"
    /\ wr = "L180"
    /\ spi_cs = "low"
    /\ log[Len(log)].arg = << 97, 8, 136 >>
    /\ log[Len(log) - 1].op = "cs_low"

\* C16: bit 23 is 0 in every table entry and control constant, and the first
\* octet of every transmission in the log, and of the buffer about to be or
\* just sent, has its most significant bit clear.
C16_WriteBitZero ==
    /\ \A w \in AllWords : Bit(w, 23) = 0
    /\ \A k \in 1..Len(log) : IsTx(log[k]) => log[k].arg[1] \div 128 = 0
    /\ wr \in {"L179", "L180"} => buf[1] \div 128 = 0

C16_Witness ==
    /\ Done
    /\ Len(Tx) = 117
    /\ Tx[1].arg[1] = 0
    /\ Tx[3].arg[1] = 112

\* the chip-enable events in the log
CeEvents == {k \in 1..Len(log) : log[k].op \in {"ce_high", "ce_low"}}

\* C17: once main.rs:163 has run the chip-enable line is active in every
\* state, the empty loop included, and the log holds exactly one chip-enable
\* event, the assertion; the only step that changes the line is line 163,
\* which drives it high; no step of write_reg changes it.
C17_ChipEnableStays ==
    /\ [](pc \notin {"L156", "L159", "L160", "L163"} =>
            /\ ce_pin = "high"
            /\ Cardinality(CeEvents) = 1
            /\ \A k \in CeEvents : log[k].op = "ce_high")
    /\ [](pc \in {"L156", "L159", "L160", "L163"} => CeEvents = {})
    /\ [][ce_pin' # ce_pin => (pc = "L163" /\ ce_pin' = "high")]_vars
    /\ [][(wr # "idle" \/ wr' # "idle") => ce_pin' = ce_pin]_vars

C17_Witness ==
    /\ Done
    /\ ce_pin = "high"
    /\ CeEvents = {4}
    /\ log[4].op = "ce_high"

\* C18: when spi.write is about to run the buffer holds reg() of the word
\* this call is writing, which is the receiver of the call site; what has
\* just been sent is reg() of that word; the j-th transmission of the run is
\* reg() of the j-th word of the run; the initial all-zero buffer is never
\* sent.
C18_BufferFresh ==
    /\ wr = "L179" => (buf = reg(self) /\ self = Receiver(pc))
    /\ wr = "L180" => (log[Len(log)].op = "tx" /\ log[Len(log)].arg = reg(self))
    /\ \A j \in 1..Len(Tx) : Tx[j].arg = reg(FullTrace[j])
    /\ \A k \in 1..Len(log) : IsTx(log[k]) => log[k].arg # << 0, 0, 0 >>

C18_Witness ==
    /\ pc = "L171"
    /\ wr = "L179"
    /\ Len(Tx) = 1
    /\ buf = reg(RESET_OFF)
    /\ Tx[1].arg # buf

====
